---- MODULE Spec2Model ----
(***************************************************************************)
(* Model of agorama: a chat room (ChatRoom, models.py) shared by gated     *)
(* agents (ReasoningAgent, reasoning_agent.py) that a runner               *)
(* (JsonAgorama / ReasoningYamlAgorama) advances tick by tick.            *)
(*                                                                         *)
(* The three runners (json_agorama.py, reasoning_agorama.py, agorama.py)   *)
(* have the same tick(); run_iters() differs only in how it sleeps.        *)
(* Names that the modules use without importing them (logger, ChatRoom,    *)
(* datetime) are taken as resolved: the model follows the control flow.    *)
(*                                                                         *)
(* Every `await` on a completion call is a suspension point, so an agent's *)
(* position (pc) is the call it is waiting for; the code between two       *)
(* awaits runs atomically on the event loop and is one action.             *)
(***************************************************************************)
EXTENDS Integers, Sequences, FiniteSets, TLC

(* ---- bounds ---- *)
NumAgents == 2    \* agents of the room
MaxIters == 2     \* run_iters(n) is explored for n in 1..MaxIters
MaxLog == 4       \* a tick starts only if its messages fit in MaxLog entries
MaxBatch == 2     \* longest batch given to add_messages
MaxCycles == 3    \* cycles of one perception agent
MaxKeyList == 2   \* longest key_list of a key-selection response
MaxAnswer == 4    \* longest gate answer enumerated character by character
MaxRoom == 2      \* messages of a room written to a file

(* chat_history_length default, models.py:132 *)
DefaultChatHistoryLength == 10

Agents == 1..NumAgents

VARIABLES
  messages,    \* chat_room.messages: sequence of ChatMessage
  now,         \* the wall clock read by datetime.now()
  num_iters,   \* argument of run_iters
  iters,       \* ticks completed by run_iters
  tick_pc,     \* position of run_iters/tick
  pc,          \* per agent: position of its act() task
  result,      \* per agent: the ChatMessage its act() returned
  seen,        \* per agent: the logs its act() read during this tick
  tickLog,     \* the log when the current tick started
  actCalls,    \* per agent: act() invocations in this tick
  gateCalls,   \* per agent: gate completion calls in this cycle
  respCalls,   \* per agent: response completion calls in this cycle
  gateFalse,   \* per agent: a gate evaluated to false in this cycle
  failedAt,    \* per agent: the step whose exception left act()
  started,     \* ticks whose tasks run_iters has created
  committed,   \* ticks whose responses have been added to the log
  doneOrder,   \* the agents of this tick in the order their act() returned
  roomOp,      \* the last ChatRoom method called from outside a tick
  logBefore,   \* the log before that call
  lastBatch,   \* the argument of the last add_messages call
  klass,       \* the class of the perception agent
  actions,     \* self.actions: the names registered at construction
  memory,      \* self.state['memory']
  contextual_memory,  \* self.state['contextual_memory']
  action_payload,     \* self.state['action_payload']
  chat_history,       \* self.state['chat_history']: the texts responded
  sensor,      \* self.state['sensor'] of a SimpleAgent, 0 while absent
  history,     \* self.history
  apc,         \* position of run_iteration() / run()
  decision,    \* the name the last decide() returned
  perception,  \* what the last perceive() returned
  raisedErr,   \* the exception that ended the last cycle, "none" if none
  cycles,      \* cycles started
  stage,       \* the last stage of a cycle that ran
  keyResponse, \* kind of the last key-selection response
  handlerCalls,       \* handlers invoked by act()
  pre,         \* the agent's state when act() was last called
  ops,         \* the handlers that ran: name, payload, memory before/after
  staged,      \* the cycle and arguments of the last tool call decide() took
  file,        \* the YAML document to_yaml wrote, and the room it wrote
  loaded,      \* the room from_yaml returned, and the room it was written from
  answer,      \* the content of the gate's completion response
  reasoned,    \* reason() has parsed the answer
  verdict      \* the should_respond that reason() parsed

roomVars == <<roomOp, logBefore, lastBatch>>

agentVars == <<klass, actions, memory, contextual_memory, action_payload,
               chat_history, sensor, history, apc, decision, perception,
               raisedErr, cycles, stage, keyResponse, handlerCalls, pre, ops,
               staged>>

runnerVars == <<messages, now, num_iters, iters, tick_pc, pc, result, seen,
                tickLog, actCalls, gateCalls, respCalls, gateFalse, failedAt,
                started, committed, doneOrder>>

yamlVars == <<file, loaded>>

gateVars == <<answer, reasoned, verdict>>

vars == <<runnerVars, roomVars, agentVars, yamlVars, gateVars>>

(* ---- ChatMessage ---- *)
ChatMessage(text, author, at) ==
  [message |-> text, created_by |-> author, created_at |-> at]

NoMessage == ChatMessage("", 0, 0)

(* ---- str.strip() / str.lower() on the gate's answer, a sequence of   ---- *)
(* ---- one-character strings                                           ---- *)
Whitespace == {" ", "\t", "\n"}

LowerChar(c) ==
  CASE c = "Y" -> "y"
    [] c = "E" -> "e"
    [] c = "S" -> "s"
    [] c = "N" -> "n"
    [] c = "O" -> "o"
    [] OTHER -> c

\* a comparison that keeps the case
SameCase(s) == s

Lower(s) == [i \in 1..Len(s) |-> LowerChar(s[i])]

RECURSIVE LStrip(_)
LStrip(s) ==
  IF s # <<>> /\ Head(s) \in Whitespace THEN LStrip(Tail(s)) ELSE s

RECURSIVE RStrip(_)
RStrip(s) ==
  IF s # <<>> /\ s[Len(s)] \in Whitespace
  THEN RStrip(SubSeq(s, 1, Len(s) - 1))
  ELSE s

Strip(s) == RStrip(LStrip(s))

(* reasoning_agent.py:22: content.strip().lower() == 'yes' *)
ShouldRespond(content) == Lower(Strip(content)) = <<"y", "e", "s">>

(* ---- what the completion backend can do on one call ---- *)
GateContents ==
  { <<"y", "e", "s">>, <<"n", "o">>, <<" ", "Y", "e", "s", "\n">>,
    <<"y", "e", "s", ".">>, <<>> }

ChatContents == {"hi", ""}

\* "raise": acompletion raises; "malformed": the response lacks
\* choices[0].message.content (or content is None)
GateOutcomes ==
  {[kind |-> "raise"], [kind |-> "malformed"]}
    \cup {[kind |-> "ok", content |-> c] : c \in GateContents}

ChatOutcomes ==
  {[kind |-> "raise"], [kind |-> "malformed"]}
    \cup {[kind |-> "ok", content |-> c] : c \in ChatContents}

(* ---- ChatRoom ---- *)
\* add_message, models.py:53-54
add_message(log, m) == Append(log, m)

RECURSIVE AddAll(_, _)
AddAll(log, batch) ==
  IF batch = <<>> THEN log
  ELSE AddAll(add_message(log, Head(batch)), Tail(batch))

(* ---- sorted(responses, key=created_at, reverse=True): stable ---- *)
\* x goes after every element whose key is >= its own
InsertDesc(x, t) ==
  LET before == {i \in 1..Len(t) : t[i].created_at < x.created_at}
      pos == IF before = {} THEN Len(t) + 1
             ELSE CHOOSE i \in before : \A j \in before : i <= j
  IN SubSeq(t, 1, pos - 1) \o <<x>> \o SubSeq(t, pos, Len(t))

RECURSIVE SortedFrom(_, _)
SortedFrom(done, rest) ==
  IF rest = <<>> THEN done
  ELSE SortedFrom(InsertDesc(Head(rest), done), Tail(rest))

TickOrder(responses) == SortedFrom(<<>>, responses)

\* chat_room.messages[-self.chat_history_length:]
Window(log) ==
  IF Len(log) <= DefaultChatHistoryLength THEN log
  ELSE SubSeq(log, Len(log) - DefaultChatHistoryLength + 1, Len(log))

(* ============ perception agents (state_agent.py, agent_complex.py) ============ *)
Keys == {"color", "size"}
Values == {"blue", "red"}

EmptyMap == [k \in {} |-> "blue"]

\* self.state['memory'][key] = value
Put(m, k, v) == [x \in (DOMAIN m) \cup {k} |-> IF x = k THEN v ELSE m[x]]

DelNothing(m, k) == m

Clear(m, k) == EmptyMap

\* del self.state['memory'][remove_key]
Del(m, k) == [x \in (DOMAIN m) \ {k} |-> m[x]]

\* state['action_payload'] before the first decide(): the key is not set
NoPayload == [unset |-> "yes"]

\* json.loads(arguments) of a tool call
Payloads ==
  {EmptyMap}
    \cup {[key |-> k] : k \in Keys}
    \cup {[key |-> k, value |-> v] : k \in Keys, v \in Values}

Classes == {"ChatAgentWithMemory", "SimpleAgent", "ComplexSimpleAgent"}

\* the callables dir(self) finds, with their _is_action mark
Methods(c) ==
  CASE c = "ChatAgentWithMemory" ->
         { [name |-> "run_iteration", is_action |-> FALSE],
           [name |-> "perceive", is_action |-> FALSE],
           [name |-> "decide", is_action |-> FALSE],
           [name |-> "act", is_action |-> FALSE],
           [name |-> "noop", is_action |-> TRUE],
           [name |-> "store", is_action |-> TRUE],
           [name |-> "remove", is_action |-> TRUE],
           [name |-> "respond", is_action |-> TRUE] }
    [] c = "SimpleAgent" ->
         { [name |-> "run_iteration", is_action |-> FALSE],
           [name |-> "perceive", is_action |-> FALSE],
           [name |-> "decide", is_action |-> FALSE],
           [name |-> "act", is_action |-> FALSE],
           [name |-> "noop", is_action |-> TRUE],
           [name |-> "do_nothing", is_action |-> TRUE] }
    [] c = "ComplexSimpleAgent" ->
         { [name |-> "run", is_action |-> FALSE],
           [name |-> "perceive", is_action |-> FALSE],
           [name |-> "decide", is_action |-> FALSE],
           [name |-> "act", is_action |-> FALSE],
           [name |-> "do_nothing", is_action |-> TRUE] }

\* BasePerceptionAgent.__init__: register what is marked as an action
Registry(c) == {m.name : m \in {x \in Methods(c) : x.is_action}}

\* decide() has taken no tool call yet
NoStaged == [cycle |-> 0, payload |-> EmptyMap]

\* the agent right after its constructor
Construct(c) ==
  /\ klass = c
  /\ actions = Registry(c)
  /\ memory = EmptyMap
  /\ contextual_memory = EmptyMap
  /\ action_payload = NoPayload
  /\ chat_history = <<>>
  /\ sensor = 0
  /\ history = <<>>
  /\ apc = "idle"
  /\ decision = "none"
  /\ perception = "none"
  /\ raisedErr = "none"
  /\ cycles = 0
  /\ stage = "none"
  /\ keyResponse = "none"
  /\ handlerCalls = 0
  /\ pre = [memory |-> EmptyMap, contextual_memory |-> EmptyMap,
            chat_history |-> <<>>, history |-> <<>>, handlerCalls |-> 0]
  /\ ops = <<>>
  /\ staged = NoStaged

(* ---- the room a runner is constructed with ---- *)
\* initial_state of the configuration, added message by message
InitialStates ==
  { <<>>, <<ChatMessage("hello", 0, 0)>> }

InFlight == {"ready", "gate1", "gate2", "gate3", "chat"}

\* no room has been written to or read from a file
YamlIdle ==
  /\ file = [written |-> FALSE, doc |-> <<>>, room |-> <<>>]
  /\ loaded = [done |-> FALSE, raised |-> FALSE, messages |-> <<>>,
               room |-> <<>>]

\* reason() has not been given an answer
GateIdle ==
  /\ answer = <<>>
  /\ reasoned = FALSE
  /\ verdict = FALSE

\* no ChatRoom method has been called from outside a tick
RoomIdle ==
  /\ roomOp = "none"
  /\ logBefore = <<>>
  /\ lastBatch = <<>>

Init ==
  /\ RoomIdle
  /\ YamlIdle
  /\ GateIdle
  /\ Construct("ChatAgentWithMemory")
  /\ messages \in InitialStates
  /\ now = 1
  /\ num_iters \in 1..MaxIters
  /\ iters = 0
  /\ tick_pc = "loop"
  /\ pc = [a \in Agents |-> "idle"]
  /\ result = [a \in Agents |-> NoMessage]
  /\ seen = [a \in Agents |-> {}]
  /\ tickLog = messages
  /\ actCalls = [a \in Agents |-> 0]
  /\ gateCalls = [a \in Agents |-> 0]
  /\ respCalls = [a \in Agents |-> 0]
  /\ gateFalse = [a \in Agents |-> FALSE]
  /\ failedAt = [a \in Agents |-> "none"]
  /\ started = 0
  /\ committed = 0
  /\ doneOrder = <<>>

\* a loop that runs once too often
LoopContinuesOneMore == iters <= num_iters

\* for _ in range(num_iters)
LoopContinues == iters < num_iters

(* ---- tick(): tasks = [agent.act(self.chat_room) for agent in agents] ---- *)
StartTick ==
  /\ tick_pc = "loop"
  /\ LoopContinues
  /\ Len(messages) + NumAgents <= MaxLog   \* the log is kept within MaxLog
  /\ tick_pc' = "gather"
  /\ pc' = [a \in Agents |-> "ready"]
  /\ result' = [a \in Agents |-> NoMessage]
  /\ seen' = [a \in Agents |-> {}]
  /\ tickLog' = messages
  /\ actCalls' = [a \in Agents |-> 0]
  /\ gateCalls' = [a \in Agents |-> 0]
  /\ respCalls' = [a \in Agents |-> 0]
  /\ gateFalse' = [a \in Agents |-> FALSE]
  /\ failedAt' = [a \in Agents |-> "none"]
  /\ started' = started + 1
  /\ doneOrder' = <<>>
  /\ UNCHANGED <<messages, now, num_iters, iters, committed>>
  /\ UNCHANGED roomVars
  /\ UNCHANGED agentVars
  /\ UNCHANGED <<yamlVars, gateVars>>

(* ---- ReasoningAgent.act ---- *)
\* the call of reason(chat_room.messages): the prompt is built from the
\* log, then the coroutine suspends on the completion call
CallReason(a, gate) ==
  /\ pc' = [pc EXCEPT ![a] = gate]
  /\ seen' = [seen EXCEPT ![a] = @ \cup {<<"reason", messages>>}]
  /\ gateCalls' = [gateCalls EXCEPT ![a] = @ + 1]

\* return ChatMessage(message=text, created_by=self.name): created_at is
\* datetime.now(), and the clock may or may not have moved since it was
\* last read, so two results can carry the same timestamp
ReturnMessage(a, text) ==
  \E d \in 0..1 :
    /\ now' = now + d
    /\ result' = [result EXCEPT ![a] = ChatMessage(text, a, now + d)]
    /\ pc' = [pc EXCEPT ![a] = "done"]
    /\ doneOrder' = Append(doneOrder, a)

\* an exception leaves act() and ends the task
Raise(a, step) ==
  /\ pc' = [pc EXCEPT ![a] = "failed"]
  /\ failedAt' = [failedAt EXCEPT ![a] = step]

ActStart(a) ==
  /\ pc[a] = "ready"
  /\ actCalls' = [actCalls EXCEPT ![a] = @ + 1]
  /\ CallReason(a, "gate1")
  /\ UNCHANGED <<messages, now, num_iters, iters, tick_pc, result, tickLog,
                 respCalls, gateFalse, failedAt>>
  /\ UNCHANGED <<started, committed, doneOrder>>
  /\ UNCHANGED roomVars
  /\ UNCHANGED agentVars
  /\ UNCHANGED <<yamlVars, gateVars>>

\* act() whose last test of the gate is lost: it responds in any case
AfterGateAlwaysChat(k, should_respond) ==
  IF k < 3
  THEN IF ~should_respond THEN "return_empty" ELSE "reason"
  ELSE "chat"

\* what act() does with the value of its k-th reason() call
AfterGate(k, should_respond) ==
  IF k < 3
  THEN IF ~should_respond THEN "return_empty" ELSE "reason"
  ELSE IF should_respond THEN "chat" ELSE "return_empty"

GateNumber(p) == CASE p = "gate1" -> 1 [] p = "gate2" -> 2 [] p = "gate3" -> 3

NextGate(k) == IF k = 1 THEN "gate2" ELSE "gate3"

\* the completion call of reason() fails: self.chat(prompt) is outside the
\* try, and the except clause names ValidationError only
GateFails(a) ==
  /\ pc[a] \in {"gate1", "gate2", "gate3"}
  /\ \E o \in GateOutcomes :
       /\ o.kind # "ok"
       /\ Raise(a, "gate")
  /\ UNCHANGED <<messages, now, num_iters, iters, tick_pc, result, seen,
                 tickLog, actCalls, gateCalls, respCalls, gateFalse>>
  /\ UNCHANGED <<started, committed, doneOrder>>
  /\ UNCHANGED roomVars
  /\ UNCHANGED agentVars
  /\ UNCHANGED <<yamlVars, gateVars>>

GateReturns(a) ==
  /\ pc[a] \in {"gate1", "gate2", "gate3"}
  /\ \E o \in GateOutcomes :
       /\ o.kind = "ok"
       /\ LET k == GateNumber(pc[a])
              step == AfterGate(k, ShouldRespond(o.content))
          IN /\ gateFalse' =
                  [gateFalse EXCEPT ![a] = @ \/ ~ShouldRespond(o.content)]
             /\ CASE step = "return_empty" ->
                       /\ ReturnMessage(a, "")
                       /\ UNCHANGED <<seen, gateCalls, respCalls>>
                  [] step = "reason" ->
                       /\ CallReason(a, NextGate(k))
                       /\ UNCHANGED <<now, result, respCalls, doneOrder>>
                  [] step = "chat" ->
                       /\ pc' = [pc EXCEPT ![a] = "chat"]
                       /\ seen' = [seen EXCEPT
                                     ![a] = @ \cup {<<"chat", Window(messages)>>}]
                       /\ respCalls' = [respCalls EXCEPT ![a] = @ + 1]
                       /\ UNCHANGED <<now, result, gateCalls, doneOrder>>
  /\ UNCHANGED <<messages, num_iters, iters, tick_pc, tickLog, actCalls,
                 failedAt>>
  /\ UNCHANGED <<started, committed>>
  /\ UNCHANGED roomVars
  /\ UNCHANGED agentVars
  /\ UNCHANGED <<yamlVars, gateVars>>

ChatFails(a) ==
  /\ pc[a] = "chat"
  /\ \E o \in ChatOutcomes :
       /\ o.kind # "ok"
       /\ Raise(a, "chat")
  /\ UNCHANGED <<messages, now, num_iters, iters, tick_pc, result, seen,
                 tickLog, actCalls, gateCalls, respCalls, gateFalse>>
  /\ UNCHANGED <<started, committed, doneOrder>>
  /\ UNCHANGED roomVars
  /\ UNCHANGED agentVars
  /\ UNCHANGED <<yamlVars, gateVars>>

ChatReturns(a) ==
  /\ pc[a] = "chat"
  /\ \E o \in ChatOutcomes :
       /\ o.kind = "ok"
       /\ ReturnMessage(a, o.content)
  /\ UNCHANGED <<messages, num_iters, iters, tick_pc, seen, tickLog,
                 actCalls, gateCalls, respCalls, gateFalse, failedAt>>
  /\ UNCHANGED <<started, committed>>
  /\ UNCHANGED roomVars
  /\ UNCHANGED agentVars
  /\ UNCHANGED <<yamlVars, gateVars>>

(* ---- tick(): responses = await asyncio.gather of the tasks ---- *)
\* a join that returns with the first finished task
AnyJoined == \E a \in Agents : pc[a] = "done"

\* a join that waits for a text from every agent
AllAnswered == \A a \in Agents : pc[a] = "done" /\ result[a].message # ""

\* gather returns once every task has returned
AllJoined == \A a \in Agents : pc[a] = "done"

NonEmptyText(m) == m.message # ""

\* a collection that drops the empty-text results
ResponsesNonEmpty == SelectSeq([a \in Agents |-> result[a]], NonEmptyText)

\* a collection that takes the results as the tasks finish
ResponsesAsCompleted == [i \in 1..Len(doneOrder) |-> result[doneOrder[i]]]

\* the results, in the order of the tasks
Responses == [a \in Agents |-> result[a]]

\* for response in sorted(...): self.chat_room.add_message(response)
Commit ==
  /\ tick_pc = "gather"
  /\ AllJoined
  /\ messages' = AddAll(messages, TickOrder(Responses))
  /\ tick_pc' = "sleep"
  /\ committed' = committed + 1
  /\ UNCHANGED <<now, num_iters, iters, pc, result, seen, tickLog, actCalls,
                 gateCalls, respCalls, gateFalse, failedAt, started,
                 doneOrder>>
  /\ UNCHANGED roomVars
  /\ UNCHANGED agentVars
  /\ UNCHANGED <<yamlVars, gateVars>>

\* a tick that adds the results it has before it raises
TickRaisesAfterPartialCommit ==
  /\ tick_pc = "gather"
  /\ \E a \in Agents : pc[a] = "failed"
  /\ tick_pc' = "raised"
  /\ messages' =
       AddAll(messages,
              SelectSeq([a \in Agents |-> result[a]],
                        LAMBDA m : m # NoMessage))
  /\ pc' = [a \in Agents |-> IF pc[a] \in InFlight THEN "cancelled" ELSE pc[a]]
  /\ UNCHANGED <<now, num_iters, iters, result, seen, tickLog,
                 actCalls, gateCalls, respCalls, gateFalse, failedAt>>
  /\ UNCHANGED <<started, committed, doneOrder>>
  /\ UNCHANGED roomVars
  /\ UNCHANGED agentVars
  /\ UNCHANGED <<yamlVars, gateVars>>

\* gather re-raises the first exception of a task; nothing catches it in
\* tick() or run_iters(), so the run ends, and the event loop that ran it
\* cancels the tasks still running when it shuts down
TickRaises ==
  /\ tick_pc = "gather"
  /\ \E a \in Agents : pc[a] = "failed"
  /\ tick_pc' = "raised"
  /\ pc' = [a \in Agents |-> IF pc[a] \in InFlight THEN "cancelled" ELSE pc[a]]
  /\ UNCHANGED <<messages, now, num_iters, iters, result, seen, tickLog,
                 actCalls, gateCalls, respCalls, gateFalse, failedAt>>
  /\ UNCHANGED <<started, committed, doneOrder>>
  /\ UNCHANGED roomVars
  /\ UNCHANGED agentVars
  /\ UNCHANGED <<yamlVars, gateVars>>

(* ---- run_iters ---- *)
\* await asyncio.sleep(1), then the next iteration
Sleep ==
  /\ tick_pc = "sleep"
  /\ now' = now + 1
  /\ iters' = iters + 1
  /\ tick_pc' = "loop"
  /\ UNCHANGED <<messages, num_iters, pc, result, seen, tickLog, actCalls,
                 gateCalls, respCalls, gateFalse, failedAt>>
  /\ UNCHANGED <<started, committed, doneOrder>>
  /\ UNCHANGED roomVars
  /\ UNCHANGED agentVars
  /\ UNCHANGED <<yamlVars, gateVars>>

\* the loop is over: self.show()
Show ==
  /\ tick_pc = "loop"
  /\ ~LoopContinues
  /\ tick_pc' = "finished"
  /\ UNCHANGED <<messages, now, num_iters, iters, pc, result, seen, tickLog,
                 actCalls, gateCalls, respCalls, gateFalse, failedAt>>
  /\ UNCHANGED <<started, committed, doneOrder>>
  /\ UNCHANGED roomVars
  /\ UNCHANGED agentVars
  /\ UNCHANGED <<yamlVars, gateVars>>

Next ==
  \/ StartTick
  \/ \E a \in Agents : ActStart(a)
  \/ \E a \in Agents : GateFails(a)
  \/ \E a \in Agents : GateReturns(a)
  \/ \E a \in Agents : ChatFails(a)
  \/ \E a \in Agents : ChatReturns(a)
  \/ Commit
  \/ TickRaises
  \/ Sleep
  \/ Show

Spec == Init /\ [][Next]_vars

\* the event loop runs a task that can run, and a completion call that is
\* awaited returns or raises: the run does not stop while a step is possible
InitFair == Init /\ messages = <<>> /\ num_iters = MaxIters

SpecFair == InitFair /\ [][Next]_vars /\ WF_vars(Next)

(* =============== ChatRoom used from outside a tick =============== *)
\* sorted(messages, key=created_at): stable, ascending
InsertAsc(x, t) ==
  LET after == {i \in 1..Len(t) : t[i].created_at > x.created_at}
      pos == IF after = {} THEN Len(t) + 1
             ELSE CHOOSE i \in after : \A j \in after : i <= j
  IN SubSeq(t, 1, pos - 1) \o <<x>> \o SubSeq(t, pos, Len(t))

RECURSIVE SortedAscFrom(_, _)
SortedAscFrom(done, rest) ==
  IF rest = <<>> THEN done
  ELSE SortedAscFrom(InsertAsc(Head(rest), done), Tail(rest))

\* an extend that keeps the order in which the batch was given
ExtendUnsorted(log, batch) == log \o batch

\* an add_messages that sorts the whole list instead of the batch
SortWholeLog(log, batch) == SortedAscFrom(<<>>, log \o batch)

\* add_messages, models.py:56-60
add_messages(log, batch) == log \o SortedAscFrom(<<>>, batch)

\* the messages a caller can hand to the room: any timestamp
RoomTimes == 0..MaxBatch

RoomMessages == {ChatMessage("hello", 0, t) : t \in RoomTimes}

Batches ==
  UNION {[1..n -> RoomMessages] : n \in 0..MaxBatch}

\* chat_room.add_message(new_msg)
AddMessage ==
  /\ Len(messages) < MaxLog
  /\ \E m \in RoomMessages :
       messages' = add_message(messages, m)
  /\ roomOp' = "add_message"
  /\ logBefore' = messages
  /\ lastBatch' = <<>>
  /\ UNCHANGED <<now, num_iters, iters, tick_pc, pc, result, seen,
                 tickLog, actCalls, gateCalls, respCalls, gateFalse, failedAt,
                 started, committed, doneOrder>>
  /\ UNCHANGED agentVars
  /\ UNCHANGED <<yamlVars, gateVars>>

\* chat_room.add_messages(batch)
AddMessages ==
  /\ \E batch \in Batches :
       /\ Len(messages) + Len(batch) <= MaxLog
       /\ messages' = add_messages(messages, batch)
       /\ lastBatch' = batch
  /\ roomOp' = "add_messages"
  /\ logBefore' = messages
  /\ UNCHANGED <<now, num_iters, iters, tick_pc, pc, result, seen,
                 tickLog, actCalls, gateCalls, respCalls, gateFalse, failedAt,
                 started, committed, doneOrder>>
  /\ UNCHANGED agentVars
  /\ UNCHANGED <<yamlVars, gateVars>>

\* what the act() tasks of one tick can return when none raises: each a
\* message of its agent, stamped by a clock that moves by 0 or 1 per read
TickTimes == now..(now + NumAgents)

Contiguous(ts) == \A t \in ts : t = now \/ t - 1 = now \/ t - 1 \in ts

TickResponses ==
  {r \in [Agents -> [text : ChatContents, at : TickTimes]] :
     Contiguous({r[a].at : a \in Agents})}

Latest(r) == CHOOSE t \in {r[a].at : a \in Agents} :
               \A a \in Agents : r[a].at <= t

\* one awaited tick(), seen from the room: the whole of tick() when every
\* act() returns
RoomTick ==
  /\ Len(messages) + NumAgents <= MaxLog
  /\ \E r \in TickResponses :
       /\ messages' =
            AddAll(messages,
                   TickOrder([a \in Agents |->
                                ChatMessage(r[a].text, a, r[a].at)]))
       /\ now' = Latest(r)
  /\ roomOp' = "tick"
  /\ logBefore' = messages
  /\ lastBatch' = <<>>
  /\ UNCHANGED <<num_iters, iters, tick_pc, pc, result, seen,
                 tickLog, actCalls, gateCalls, respCalls, gateFalse, failedAt,
                 started, committed, doneOrder>>
  /\ UNCHANGED agentVars
  /\ UNCHANGED <<yamlVars, gateVars>>

\* a room built empty, ChatRoom(room_name=...), outside run_iters
InitRoom ==
  /\ Init
  /\ messages = <<>>
  /\ num_iters = 1

NextRoom ==
  \/ AddMessage
  \/ AddMessages
  \/ RoomTick

SpecRoom == InitRoom /\ [][NextRoom]_vars

(* =============== one cycle of a perception agent =============== *)
Range(s) == {s[i] : i \in 1..Len(s)}

KeyLists == UNION {[1..n -> Keys] : n \in 0..MaxKeyList}

\* the completion backend's answer to the memory prompt: the call raises,
\* the content does not validate as MemoryKeyAccess, or it gives a key_list
KeyResponses ==
  { [kind |-> "raise", key_list |-> <<>>],
    [kind |-> "invalid", key_list |-> <<>>] }
    \cup {[kind |-> "parsed", key_list |-> l] : l \in KeyLists}

KindOf(r, mem) ==
  IF r.kind # "parsed" THEN r.kind
  ELSE IF r.key_list = <<>> THEN "empty"
  ELSE IF Range(r.key_list) \subseteq DOMAIN mem THEN "keys"
  ELSE "absent_key"

ContextForLenient(mem, key_list) ==
  [ raised |-> FALSE,
    value |-> [k \in Range(key_list) |->
                 IF k \in DOMAIN mem THEN mem[k] ELSE "None"] ]

\* contextual_memory[key] = self.state['memory'][key] for each key: the
\* lookup of a key that is not in memory raises KeyError
ContextFor(mem, key_list) ==
  IF \A i \in 1..Len(key_list) : key_list[i] \in DOMAIN mem
  THEN [raised |-> FALSE, value |-> [k \in Range(key_list) |-> mem[k]]]
  ELSE [raised |-> TRUE, value |-> EmptyMap]

\* ChatAgentWithMemory.perceive with the backend's answer r
PerceiveChat(r) ==
  /\ keyResponse' = KindOf(r, memory)
  /\ IF r.kind = "raise"
     THEN /\ apc' = "raised"
          /\ raisedErr' = "BackendError"
          /\ UNCHANGED <<contextual_memory, perception>>
     ELSE IF r.kind = "invalid"
     THEN /\ apc' = "raised"
          /\ raisedErr' = "ValidationError"
          /\ UNCHANGED <<contextual_memory, perception>>
     ELSE IF ContextFor(memory, r.key_list).raised
     THEN /\ apc' = "raised"
          /\ raisedErr' = "KeyError"
          /\ UNCHANGED <<contextual_memory, perception>>
     ELSE /\ contextual_memory' = ContextFor(memory, r.key_list).value
          /\ perception' = "None"
          /\ apc' = "perceived"
          /\ raisedErr' = "none"
  /\ UNCHANGED sensor

\* self.state['sensor'] = 42
SensorValue == 42

\* SimpleAgent.perceive, the same in both files
PerceiveSimple ==
  /\ sensor' = SensorValue
  /\ perception' = <<"sensor">>
  /\ apc' = "perceived"
  /\ raisedErr' = "none"
  /\ UNCHANGED <<contextual_memory, keyResponse>>

\* run_iteration() / run() is called and perceive() runs
Perceive ==
  /\ apc \in {"idle", "raised"}
  /\ cycles < MaxCycles
  /\ cycles' = cycles + 1
  /\ stage' = "perceive"
  /\ IF klass = "ChatAgentWithMemory"
     THEN \E r \in KeyResponses : PerceiveChat(r)
     ELSE PerceiveSimple
  /\ UNCHANGED <<klass, actions, memory, action_payload, chat_history,
                 history, decision, handlerCalls, pre, ops, staged>>
  /\ UNCHANGED <<runnerVars, roomVars, yamlVars, gateVars>>

\* the names a tool call of the backend can carry; "retrieve" is no action
ToolNames == {"store", "remove", "respond", "noop", "retrieve"}

\* the completion backend's answer to the decision prompt
ToolResponses ==
  { [kind |-> "raise", name |-> "none", arguments |-> EmptyMap],
    [kind |-> "no_tool_call", name |-> "none", arguments |-> EmptyMap] }
    \cup {[kind |-> "bad_arguments", name |-> n, arguments |-> EmptyMap] :
            n \in ToolNames}
    \cup {[kind |-> "call", name |-> n, arguments |-> p] :
            n \in ToolNames, p \in Payloads}

\* what act() is about to be called on
Snapshot ==
  [ memory |-> memory, contextual_memory |-> contextual_memory,
    chat_history |-> chat_history, history |-> history,
    handlerCalls |-> handlerCalls ]

\* a decide() that updates the payload it finds with the arguments
MergedPayload(r) ==
  IF r.kind = "call"
  THEN [k \in (DOMAIN action_payload) \cup (DOMAIN r.arguments) |->
          IF k \in DOMAIN r.arguments THEN r.arguments[k]
          ELSE action_payload[k]]
  ELSE action_payload

\* self.state['action_payload'] = {} before the completion call, then
\* self.state['action_payload'] = json.loads(arguments)
StagedPayload(r) == IF r.kind = "call" THEN r.arguments ELSE EmptyMap

\* ChatAgentWithMemory.decide with the backend's answer r
DecideChat(r) ==
  /\ action_payload' = StagedPayload(r)
  /\ staged' = IF r.kind = "call"
               THEN [cycle |-> cycles, payload |-> r.arguments]
               ELSE staged
  /\ IF r.kind = "call"
     THEN /\ decision' = r.name
          /\ apc' = "decided"
          /\ raisedErr' = "none"
          /\ pre' = Snapshot
     ELSE /\ apc' = "raised"
          /\ raisedErr' = CASE r.kind = "raise" -> "BackendError"
                            [] r.kind = "no_tool_call" -> "TypeError"
                            [] r.kind = "bad_arguments" -> "JSONDecodeError"
          /\ UNCHANGED <<decision, pre>>

\* SimpleAgent.decide, the same in both files
DecideSimple ==
  /\ decision' = "do_nothing"
  /\ apc' = "decided"
  /\ raisedErr' = "none"
  /\ pre' = Snapshot
  /\ UNCHANGED <<action_payload, staged>>

Decide ==
  /\ apc = "perceived"
  /\ stage' = "decide"
  /\ IF klass = "ChatAgentWithMemory"
     THEN \E r \in ToolResponses : DecideChat(r)
     ELSE DecideSimple
  /\ UNCHANGED <<klass, actions, memory, contextual_memory, chat_history,
                 sensor, history, perception, cycles, keyResponse,
                 handlerCalls, ops>>
  /\ UNCHANGED <<runnerVars, roomVars, yamlVars, gateVars>>

RegisteredOrNot(action_name) == TRUE

\* act(): if action_name not in self.actions: raise ValueError
Registered(action_name) == action_name \in actions

\* a remove() that takes every key to be in the store
KeyAssumedInMemory(remove_key) == TRUE

\* remove(): if remove_key in self.state['memory']
KeyInMemory(remove_key) == remove_key \in DOMAIN memory

\* the handler of a ChatAgentWithMemory: what it raises, what it returns,
\* and the memory and chat history it leaves
Handler(action_name, respond_ok) ==
  IF action_name = "store"
  THEN IF {"key", "value"} \subseteq DOMAIN action_payload
       THEN [ raised |-> "none", result |-> "Stored",
              memory |-> Put(memory, action_payload.key, action_payload.value),
              chat_history |-> chat_history ]
       ELSE [ raised |-> "KeyError", result |-> "none",
              memory |-> memory, chat_history |-> chat_history ]
  ELSE IF action_name = "remove"
  THEN IF "key" \notin DOMAIN action_payload
       THEN [ raised |-> "KeyError", result |-> "none",
              memory |-> memory, chat_history |-> chat_history ]
       ELSE IF KeyInMemory(action_payload.key)
       THEN [ raised |-> "none", result |-> "Removed",
              memory |-> Del(memory, action_payload.key),
              chat_history |-> chat_history ]
       ELSE [ raised |-> "none", result |-> "not found",
              memory |-> memory, chat_history |-> chat_history ]
  ELSE IF action_name = "respond"
  THEN IF respond_ok
       THEN [ raised |-> "none", result |-> "hi",
              memory |-> memory, chat_history |-> Append(chat_history, "hi") ]
       ELSE [ raised |-> "BackendError", result |-> "none",
              memory |-> memory, chat_history |-> chat_history ]
  ELSE [ raised |-> "none", result |-> "None",
         memory |-> memory, chat_history |-> chat_history ]

\* the last two handlers that ran
Recent(s) == IF Len(s) > 2 THEN SubSeq(s, Len(s) - 1, Len(s)) ELSE s

\* an act() called on a fixed name
StaleArgument == "noop"

\* action_result = self.act(decision)
ActArgument == decision

\* a run_iteration that records the cycle whether or not act() raised
ActChatRecordsFailure(h) ==
  /\ memory' = h.memory
  /\ chat_history' = h.chat_history
  /\ history' = Append(history,
                       [ state |-> [ref |-> TRUE],
                         decision |-> decision,
                         action |-> h.result,
                         perception |-> perception ])
  /\ IF h.raised = "none"
     THEN /\ apc' = "idle"
          /\ raisedErr' = "none"
          /\ ops' = Recent(Append(ops, [ name |-> ActArgument,
                                         payload |-> action_payload,
                                         before |-> memory,
                                         after |-> h.memory ]))
     ELSE /\ apc' = "raised"
          /\ raisedErr' = h.raised
          /\ UNCHANGED ops

\* state_agent.py: self.actions[action_name]() and the history entry of
\* run_iteration, which holds self.state itself
ActChat(h) ==
  /\ memory' = h.memory
  /\ chat_history' = h.chat_history
  /\ IF h.raised = "none"
     THEN /\ apc' = "idle"
          /\ raisedErr' = "none"
          /\ history' = Append(history,
                               [ state |-> [ref |-> TRUE],
                                 decision |-> decision,
                                 action |-> h.result,
                                 perception |-> perception ])
          /\ ops' = Recent(Append(ops, [ name |-> ActArgument,
                                         payload |-> action_payload,
                                         before |-> memory,
                                         after |-> h.memory ]))
     ELSE /\ apc' = "raised"
          /\ raisedErr' = h.raised
          /\ UNCHANGED <<history, ops>>

\* state_agent.py SimpleAgent: do_nothing(self, state) is called with no
\* argument
ActSimple ==
  /\ apc' = "raised"
  /\ raisedErr' = "TypeError"
  /\ UNCHANGED <<memory, chat_history, history, ops>>

\* agent_complex.py: new_state = self.actions[action_name](self.state) and
\* the history entry of run, which holds a copy of the state
ActComplex ==
  /\ apc' = "idle"
  /\ raisedErr' = "none"
  /\ history' = Append(history,
                       [ state |-> [ref |-> FALSE, sensor |-> sensor],
                         action |-> decision,
                         decision |-> decision,
                         observation |-> perception ])
  /\ UNCHANGED <<memory, chat_history, ops>>

Act ==
  /\ apc = "decided"
  /\ stage' = "act"
  /\ IF ~Registered(ActArgument)
     THEN /\ apc' = "raised"
          /\ raisedErr' = "ValueError"
          /\ UNCHANGED <<memory, chat_history, history, ops, handlerCalls>>
     ELSE /\ handlerCalls' = handlerCalls + 1
          /\ CASE klass = "ChatAgentWithMemory" ->
                    \E respond_ok \in BOOLEAN :
                      ActChat(Handler(ActArgument, respond_ok))
               [] klass = "SimpleAgent" -> ActSimple
               [] klass = "ComplexSimpleAgent" -> ActComplex
  /\ UNCHANGED <<klass, actions, contextual_memory, action_payload, sensor,
                 decision, perception, cycles, keyResponse, pre, staged>>
  /\ UNCHANGED <<runnerVars, roomVars, yamlVars, gateVars>>

InitAgent ==
  /\ RoomIdle
  /\ YamlIdle
  /\ GateIdle
  /\ \E c \in Classes : Construct(c)
  /\ messages = <<>>
  /\ now = 1
  /\ num_iters = 1
  /\ iters = 0
  /\ tick_pc = "loop"
  /\ pc = [a \in Agents |-> "idle"]
  /\ result = [a \in Agents |-> NoMessage]
  /\ seen = [a \in Agents |-> {}]
  /\ tickLog = messages
  /\ actCalls = [a \in Agents |-> 0]
  /\ gateCalls = [a \in Agents |-> 0]
  /\ respCalls = [a \in Agents |-> 0]
  /\ gateFalse = [a \in Agents |-> FALSE]
  /\ failedAt = [a \in Agents |-> "none"]
  /\ started = 0
  /\ committed = 0
  /\ doneOrder = <<>>

NextAgent == Perceive \/ Decide \/ Act

SpecAgent == InitAgent /\ [][NextAgent]_vars

(* =============== reason() on one answer of the backend =============== *)
\* a runner and a room that nothing has been done with
RunnerIdle ==
  /\ messages = <<>>
  /\ now = 1
  /\ num_iters = 1
  /\ iters = 0
  /\ tick_pc = "loop"
  /\ pc = [a \in Agents |-> "idle"]
  /\ result = [a \in Agents |-> NoMessage]
  /\ seen = [a \in Agents |-> {}]
  /\ tickLog = messages
  /\ actCalls = [a \in Agents |-> 0]
  /\ gateCalls = [a \in Agents |-> 0]
  /\ respCalls = [a \in Agents |-> 0]
  /\ gateFalse = [a \in Agents |-> FALSE]
  /\ failedAt = [a \in Agents |-> "none"]
  /\ started = 0
  /\ committed = 0
  /\ doneOrder = <<>>

\* the characters a gate answer is made of
AnswerChars == {"y", "Y", "e", "E", "s", "S", " ", "\n", ".", "n", "o"}

\* response.choices[0].message.content of the gate call
Answers ==
  UNION {[1..n -> AnswerChars] : n \in 0..MaxAnswer}
    \cup GateContents
    \cup { <<"y", "e", "s", " ", "p", "l", "e", "a", "s", "e">> }

\* should_respond = content.strip().lower() == 'yes'; return should_respond
Reason ==
  /\ ~reasoned
  /\ reasoned' = TRUE
  /\ verdict' = ShouldRespond(answer)
  /\ UNCHANGED answer
  /\ UNCHANGED <<runnerVars, roomVars, agentVars, yamlVars>>

InitGate ==
  /\ RunnerIdle
  /\ RoomIdle
  /\ YamlIdle
  /\ Construct("ChatAgentWithMemory")
  /\ answer \in Answers
  /\ reasoned = FALSE
  /\ verdict = FALSE

SpecGate == InitGate /\ [][Reason]_vars

(* =============== ChatRoom.to_yaml / ChatRoom.from_yaml =============== *)
\* a datetime: its date and time fields (at), its microsecond, and its
\* tzinfo, <<>> when naive and else the UTC offset in minutes
DateTime(at, micro, tz) == [at |-> at, micro |-> micro, tz |-> tz]

DateTimes ==
  {DateTime(at, micro, tz) : at \in 0..1, micro \in {0, 5}, tz \in {<<>>, <<0>>}}

\* message texts and author names, as sequences of characters
Texts ==
  { <<"h">>, <<>>, <<"n", "o">>, <<"1">>, <<" ", "h">>, <<"h", " ">>,
    <<"h", " ", "o">> }

Authors == { <<"U">>, <<"1">> }

YamlMessages ==
  {ChatMessage(t, <<"U">>, DateTime(0, 0, <<0>>)) : t \in Texts}
    \cup {ChatMessage(<<"h">>, a, DateTime(0, 0, <<0>>)) : a \in Authors}
    \cup {ChatMessage(<<"h">>, <<"U">>, dt) : dt \in DateTimes}

Digits == {"0", "1"}

BoolWords == { <<"n", "o">>, <<"o", "n">> }

\* the tag the resolver gives a plain scalar
PlainResolves(chars) ==
  IF chars = <<>> THEN "null"
  ELSE IF \A i \in 1..Len(chars) : chars[i] \in Digits THEN "int"
  ELSE IF chars \in BoolWords THEN "bool"
  ELSE "str"

RECURSIVE StripSpaces(_)
\* a plain scalar is read without the spaces around it
StripSpaces(chars) ==
  IF chars # <<>> /\ Head(chars) = " " THEN StripSpaces(Tail(chars))
  ELSE IF chars # <<>> /\ chars[Len(chars)] = " "
  THEN StripSpaces(SubSeq(chars, 1, Len(chars) - 1))
  ELSE chars

\* an emitter that writes every string as a plain scalar
AlwaysPlain(chars) == "plain"

\* yaml.dump of a str: plain only if a plain scalar reads back as this str
ScalarStyle(chars) ==
  IF PlainResolves(chars) = "str" /\ StripSpaces(chars) = chars
  THEN "plain"
  ELSE "quoted"

DumpScalar(chars) == [style |-> ScalarStyle(chars), chars |-> chars]

\* yaml.safe_load of a scalar
LoadScalar(sc) ==
  IF sc.style = "quoted"
  THEN [type |-> "str", chars |-> sc.chars]
  ELSE [ type |-> PlainResolves(StripSpaces(sc.chars)),
         chars |-> StripSpaces(sc.chars) ]

\* yaml.dump of a datetime: isoformat(' '), which leaves out a zero
\* microsecond and, for a naive datetime, the offset
DumpTime(dt) ==
  [ at |-> dt.at,
    fraction |-> IF dt.micro = 0 THEN <<>> ELSE <<dt.micro>>,
    tz |-> dt.tz ]

\* yaml.safe_load of a timestamp: a missing fraction is 0, an offset gives
\* an aware datetime
LoadTime(ts) ==
  DateTime(ts.at, IF ts.fraction = <<>> THEN 0 ELSE ts.fraction[1], ts.tz)

\* yaml.dump(asdict(self), f): the messages of the document, in order
DumpRoom(log) ==
  [i \in 1..Len(log) |->
     [ message |-> DumpScalar(log[i].message),
       created_by |-> DumpScalar(log[i].created_by),
       created_at |-> DumpTime(log[i].created_at) ]]

\* ChatMessage(**message) validates message and created_by as str
ValidEntry(e) ==
  /\ LoadScalar(e.message).type = "str"
  /\ LoadScalar(e.created_by).type = "str"

\* [ChatMessage(**message) for message in yaml_data["messages"]]
LoadRoom(doc) ==
  [i \in 1..Len(doc) |->
     ChatMessage(LoadScalar(doc[i].message).chars,
                 LoadScalar(doc[i].created_by).chars,
                 LoadTime(doc[i].created_at))]

\* chat_room.add_message(ChatMessage(...)) on the room to be saved
YamlAdd ==
  /\ Len(messages) < MaxRoom
  /\ \E m \in YamlMessages : messages' = add_message(messages, m)
  /\ UNCHANGED <<now, num_iters, iters, tick_pc, pc, result, seen,
                 tickLog, actCalls, gateCalls, respCalls, gateFalse, failedAt,
                 started, committed, doneOrder>>
  /\ UNCHANGED <<roomVars, agentVars, yamlVars, gateVars>>

\* chat_room.to_yaml(file_name)
ToYaml ==
  /\ file' = [written |-> TRUE, doc |-> DumpRoom(messages), room |-> messages]
  /\ UNCHANGED loaded
  /\ UNCHANGED <<runnerVars, roomVars, agentVars, gateVars>>

\* ChatRoom.from_yaml(file_name)
FromYaml ==
  /\ file.written
  /\ loaded' =
       IF \A i \in 1..Len(file.doc) : ValidEntry(file.doc[i])
       THEN [ done |-> TRUE, raised |-> FALSE,
              messages |-> LoadRoom(file.doc), room |-> file.room ]
       ELSE [ done |-> TRUE, raised |-> TRUE,
              messages |-> <<>>, room |-> file.room ]
  /\ UNCHANGED file
  /\ UNCHANGED <<runnerVars, roomVars, agentVars, gateVars>>

InitYaml ==
  /\ RunnerIdle
  /\ RoomIdle
  /\ YamlIdle
  /\ GateIdle
  /\ Construct("ChatAgentWithMemory")

NextYaml == YamlAdd \/ ToYaml \/ FromYaml

SpecYaml == InitYaml /\ [][NextYaml]_vars

(* ======================= properties ======================= *)
NonDecreasing(s) ==
  \A i, j \in 1..Len(s) : i < j => s[i].created_at <= s[j].created_at

IsPrefix(s, t) == Len(s) <= Len(t) /\ SubSeq(t, 1, Len(s)) = s

\* the entries appended since the current tick started
TickSegment == SubSeq(messages, Len(tickLog) + 1, Len(messages))

DistinctTimes ==
  \A a, b \in Agents : a # b => result[a].created_at # result[b].created_at

\* the state right after tick() has committed
Committed == tick_pc = "sleep"

(* C1: the messages one tick appends are a tail segment of the log that is
   non-decreasing in created_at, whenever the results' timestamps are
   distinct. *)
C1_TickCommitsInTimestampOrder ==
  (Committed /\ DistinctTimes) =>
    /\ IsPrefix(tickLog, messages)
    /\ NonDecreasing(TickSegment)

(* C2: starting from a log ordered by created_at, after any sequence of
   ticks the whole log (hence every prefix) is non-decreasing in
   created_at. *)
C2_LogNonDecreasing == NonDecreasing(messages)

(* C3: while any agent's act() is in flight the log is the log of the start
   of the tick, and every read an agent made, at each gate evaluation and at
   the response call, read that log. *)
C3_LogFrozenDuringTick ==
  /\ (\E a \in Agents : pc[a] \in InFlight) => messages = tickLog
  /\ \A a \in Agents :
       seen[a] \subseteq {<<"reason", tickLog>>, <<"chat", Window(tickLog)>>}

\* an agent reads for its response call while another has already returned
C3_Witness ==
  \E a, b \in Agents :
    /\ pc[a] = "done"
    /\ pc[b] = "chat"
    /\ <<"chat", Window(tickLog)>> \in seen[b]

(* C4: when an agent's cycle fails in a tick, the tick still commits the
   messages of the agents that returned one. *)
C4_OthersStillCommitted ==
  (tick_pc = "raised") =>
    \A b \in Agents :
      pc[b] = "done" =>
        \E i \in (Len(tickLog) + 1)..Len(messages) : messages[i] = result[b]

(* C5: a failing completion call outside the gate step, in a tick that is
   not the last of run_iters(n), does not halt the run. *)
C5_RunSurvivesResponseFailure ==
  ( /\ \E a \in Agents : failedAt[a] = "chat"
    /\ \A a \in Agents : failedAt[a] # "gate"
    /\ iters + 1 < num_iters )
  => tick_pc # "raised"

(* C6: in a tick in which every act() completes, each agent's act() was
   invoked exactly once and the log grew by exactly one entry per agent,
   the entry being that agent's result, empty-text results included. *)
C6_OneEntryPerAgent ==
  Committed =>
    /\ IsPrefix(tickLog, messages)
    /\ Len(messages) = Len(tickLog) + NumAgents
    /\ \A a \in Agents :
         /\ actCalls[a] = 1
         /\ Cardinality({i \in 1..Len(TickSegment) :
                           TickSegment[i].created_by = a}) = 1
         /\ \E i \in 1..Len(TickSegment) : TickSegment[i] = result[a]

\* a committed tick with an empty-text result and a non-empty one
C6_Witness ==
  /\ Committed
  /\ \E a, b \in Agents : result[a].message = "" /\ result[b].message = "hi"

(* C7: an agent that does not respond in a tick adds nothing to the log:
   after the commit no entry of the tick's segment is authored by an agent
   whose gate refused. *)
C7_SilentAgentAddsNothing ==
  Committed =>
    \A a \in Agents :
      gateFalse[a] =>
        \A i \in 1..Len(TickSegment) : TickSegment[i].created_by # a

(* C8: no failure of the gate step ever leaves act() as an exception. *)
C8_GateFailureNeverPropagates ==
  \A a \in Agents : failedAt[a] # "gate"

(* C9: when a gate evaluates to false, act() returns an empty-text message
   authored by the agent, without error and without a response call. *)
C9_RefusalReturnsEmpty ==
  \A a \in Agents :
    gateFalse[a] =>
      /\ pc[a] = "done"
      /\ failedAt[a] = "none"
      /\ result[a].message = ""
      /\ result[a].created_by = a
      /\ respCalls[a] = 0

\* the refusal came from the last evaluation of the gate
C9_Witness ==
  \E a \in Agents : gateFalse[a] /\ pc[a] = "done" /\ gateCalls[a] = 3

(* C10: each act() cycle performs exactly one gate completion call, whether
   the answer is yes or no. *)
C10_ExactlyOneGateCall ==
  \A a \in Agents :
    /\ gateCalls[a] <= 1
    /\ pc[a] = "done" => gateCalls[a] = 1

(* C20: run_iters(n) runs its ticks strictly one after another: while a
   tick's act() tasks exist, every earlier tick has been joined,
   committed and slept on; outside a tick no act() is in flight; and a
   run_iters(n) that returns has started and committed exactly n ticks. *)
C20_TicksSequential ==
  /\ committed <= started
  /\ started <= committed + 1
  /\ (\E a \in Agents : pc[a] \in InFlight) =>
       /\ tick_pc = "gather"
       /\ started = committed + 1
       /\ iters = committed
  /\ tick_pc \in {"loop", "sleep", "finished"} =>
       /\ started = committed
       /\ Len(messages) = Len(tickLog) + (IF started > 0 THEN NumAgents ELSE 0)
  /\ tick_pc = "finished" => started = num_iters /\ committed = num_iters

\* run_iters(2) has returned after two committed ticks
C20_Witness ==
  tick_pc = "finished" /\ num_iters = 2 /\ committed = 2

(* C18: the log is append-only: the log as it was before an add_message,
   an add_messages or a tick is a prefix of the log after it. *)
C18_LogAppendOnly ==
  roomOp # "none" => IsPrefix(logBefore, messages)

\* a tick has appended to a log that already held entries
C18_Witness ==
  roomOp = "tick" /\ logBefore # <<>> /\ Len(messages) > Len(logBefore)

DistinctBatchTimes(batch) ==
  \A i, j \in 1..Len(batch) :
    i # j => batch[i].created_at # batch[j].created_at

\* the entries appended by the last ChatRoom call
RoomSegment == SubSeq(messages, Len(logBefore) + 1, Len(messages))

(* C19: add_messages of a non-empty batch with distinct timestamps appends
   exactly the batch's messages, each once, as a tail segment that is
   non-decreasing in created_at, whatever the order of the batch. *)
C19_BatchAppendedSorted ==
  (roomOp = "add_messages" /\ lastBatch # <<>>
     /\ DistinctBatchTimes(lastBatch)) =>
    /\ IsPrefix(logBefore, messages)
    /\ Len(RoomSegment) = Len(lastBatch)
    /\ NonDecreasing(RoomSegment)
    /\ \A i \in 1..Len(lastBatch) :
         Cardinality({j \in 1..Len(RoomSegment) :
                        RoomSegment[j] = lastBatch[i]}) = 1

\* a batch given in descending order was appended to a non-empty log
C19_Witness ==
  /\ roomOp = "add_messages"
  /\ logBefore # <<>>
  /\ Len(lastBatch) = 2
  /\ lastBatch[1].created_at > lastBatch[2].created_at

(* C11: decide() never returns an unregistered name: whatever tool call
   the completion backend answers with, the name decide() returns is a
   key of the agent's action registry. *)
C11_DecideReturnsRegisteredName ==
  (stage = "decide" /\ apc = "decided") => decision \in actions

(* C12: act(action_name) with a name that is not in the registry raises
   its error, invokes no handler, and leaves memory, contextual memory,
   the local chat history and the history trail as they were when act()
   was called. *)
C12_UnknownActionRejected ==
  (stage = "act" /\ decision \notin actions) =>
    /\ apc = "raised"
    /\ raisedErr = "ValueError"
    /\ handlerCalls = pre.handlerCalls
    /\ memory = pre.memory
    /\ contextual_memory = pre.contextual_memory
    /\ chat_history = pre.chat_history
    /\ history = pre.history

\* act() was called on an unregistered name by an agent that had stored an
\* entry and had a history trail
C12_Witness ==
  /\ stage = "act"
  /\ decision \notin actions
  /\ pre.memory # EmptyMap
  /\ pre.history # <<>>

(* C13: every agent's action registry holds a no-op action from
   construction on, and the registry's name set stays what construction
   made it. *)
C13_RegistryHasNoop ==
  /\ "noop" \in actions
  /\ actions = Registry(klass)

(* C14: whenever perceive() computes contextual_memory, its keys are keys
   of the memory store at that moment and carry the store's values,
   whatever key_list the backend selected. *)
C14_ContextSubsetOfMemory ==
  (klass = "ChatAgentWithMemory" /\ stage = "perceive" /\ apc = "perceived") =>
    /\ DOMAIN contextual_memory \subseteq DOMAIN memory
    /\ \A k \in DOMAIN contextual_memory : contextual_memory[k] = memory[k]

\* perceive() selected some but not all of the entries of the store
C14_Witness ==
  /\ klass = "ChatAgentWithMemory"
  /\ stage = "perceive"
  /\ apc = "perceived"
  /\ contextual_memory # EmptyMap
  /\ DOMAIN contextual_memory # DOMAIN memory

(* C15: an empty, unparseable or malformed key-selection response, one
   naming a key absent from memory included, makes perceive() set
   contextual_memory to the empty mapping and return: no error leaves
   perceive(). *)
C15_MalformedKeysFailSafe ==
  (stage = "perceive" /\ keyResponse \in {"empty", "invalid", "absent_key"}) =>
    /\ apc = "perceived"
    /\ contextual_memory = EmptyMap

(* C16: store with payload {key: k, value: v} followed by remove with
   payload {key: k} leaves k absent from the memory store and every other
   entry as it was before the store. *)
C16_StoreThenRemove ==
  \A i \in 1..(Len(ops) - 1) :
    (/\ ops[i].name = "store"
     /\ ops[i + 1].name = "remove"
     /\ ops[i + 1].payload.key = ops[i].payload.key) =>
      LET k == ops[i].payload.key
          m0 == ops[i].before
          m2 == ops[i + 1].after
      IN /\ k \notin DOMAIN m2
         /\ DOMAIN m2 = (DOMAIN m0) \ {k}
         /\ \A x \in DOMAIN m2 : m2[x] = m0[x]

\* k was stored and then removed in a store that held another entry
C16_Witness ==
  /\ Len(ops) = 2
  /\ ops[1].name = "store"
  /\ ops[2].name = "remove"
  /\ ops[2].payload.key = ops[1].payload.key
  /\ ops[1].before # EmptyMap
  /\ ops[1].payload.key \notin DOMAIN ops[1].before

(* C17: state['memory'] changes only in act() running store or remove,
   and then only at the key named in the payload: perceive, decide,
   respond and noop leave it as it is. *)
C17_MemoryFrame ==
  [][memory' # memory =>
       /\ apc = "decided"
       /\ decision \in {"store", "remove"}
       /\ "key" \in DOMAIN action_payload
       /\ \A x \in Keys \ {action_payload.key} :
            /\ x \in DOMAIN memory <=> x \in DOMAIN memory'
            /\ x \in DOMAIN memory => memory'[x] = memory[x]]_vars

\* respond ran on a non-empty store and left it, then store added a
\* second entry beside the first
C17_Witness ==
  /\ Len(ops) = 2
  /\ ops[1].name = "respond"
  /\ ops[1].before # EmptyMap
  /\ ops[1].after = ops[1].before
  /\ ops[2].name = "store"
  /\ ops[2].payload.key \notin DOMAIN ops[2].before
  /\ Cardinality(DOMAIN ops[2].after) = 2

(* C21: the history trail is append-only and grows by exactly one record
   in a step that completes a perceive/decide/act cycle; every other
   step, a cycle aborting in perceive, decide or act included, leaves it
   as it is. *)
C21_HistoryGrowsPerCycle ==
  [][/\ IsPrefix(history, history')
     /\ Len(history') =
          Len(history) + (IF apc = "decided" /\ apc' = "idle" THEN 1 ELSE 0)]_vars

\* two cycles completed and a third aborted in act()
C21_Witness ==
  /\ Len(history) = 2
  /\ cycles = 3
  /\ stage = "act"
  /\ apc = "raised"

(* C22: within one cycle perceive, decide and act run in this order, each
   once: a cycle starts with perceive, decide runs only right after the
   perceive of the same cycle has returned, act only right after its
   decide has returned, and the handler act() runs is the one named by
   that decide. *)
C22_StagesInOrder ==
  [][/\ stage' = "perceive" <=> cycles' = cycles + 1
     /\ cycles' # cycles => apc \in {"idle", "raised"}
     /\ stage' = "decide" =>
          stage = "perceive" /\ apc = "perceived" /\ cycles' = cycles
     /\ stage' = "act" =>
          stage = "decide" /\ apc = "decided" /\ cycles' = cycles
     /\ (stage' = "act" /\ ops' # ops) =>
          ops'[Len(ops')].name = decision]_vars

\* the second cycle ran its three stages and its handler was respond
C22_Witness ==
  /\ cycles = 2
  /\ stage = "act"
  /\ apc = "idle"
  /\ decision = "respond"
  /\ Len(ops) = 2
  /\ ops[2].name = "respond"

(* C27: the payload a handler consumes is the one the decide of the same
   cycle staged: act() runs a handler only on the arguments of the tool
   call that this cycle's decide took, and a decide that fails leaves the
   payload empty. *)
C27_PayloadFromSameCycle ==
  [][/\ (stage' = "act" /\ handlerCalls' # handlerCalls
           /\ klass = "ChatAgentWithMemory") =>
          staged.cycle = cycles /\ action_payload = staged.payload
     /\ (stage' = "decide" /\ apc' = "raised") =>
          action_payload' = EmptyMap]_vars

\* remove ran on its own cycle's payload after a store with another one
C27_Witness ==
  /\ stage = "act"
  /\ apc = "idle"
  /\ Len(ops) = 2
  /\ ops[1].name = "store"
  /\ ops[2].name = "remove"
  /\ ops[2].payload # ops[1].payload
  /\ staged = [cycle |-> cycles, payload |-> ops[2].payload]

(* C29: the state shown by the history record of a cycle is the state at
   the end of that cycle: the memory read through the record before the
   last one is the memory the handler of that cycle left. *)
C29_SnapshotFrozen ==
  (klass = "ChatAgentWithMemory" /\ Len(ops) = 2) =>
    (IF history[Len(history) - 1].state.ref
     THEN memory
     ELSE history[Len(history) - 1].state.memory) = ops[1].after

(* C24: the order in which a tick's messages are committed is a function
   of their created_at values and of the agents' registration order: a
   later created_at comes first, and messages of equal created_at come in
   registration order, whatever the order in which the act() tasks
   returned. *)
C24_CommitOrderDeterministic ==
  Committed =>
    /\ Len(TickSegment) = NumAgents
    /\ \A i, j \in 1..Len(TickSegment) :
         i < j =>
           \/ TickSegment[i].created_at > TickSegment[j].created_at
           \/ /\ TickSegment[i].created_at = TickSegment[j].created_at
              /\ TickSegment[i].created_by < TickSegment[j].created_by

\* the second agent returned first, both results carry one created_at, and
\* the first agent's message was committed first
C24_Witness ==
  /\ Committed
  /\ doneOrder = <<2, 1>>
  /\ result[1].created_at = result[2].created_at
  /\ TickSegment[1].created_by = 1
  /\ TickSegment[2].created_by = 2

(* C28: a tick commits all or nothing: when an act() of the tick has
   raised and tick() has raised, the log is the log of the tick's
   start. *)
C28_FailedTickAddsNothing ==
  tick_pc = "raised" => messages = tickLog

\* tick() raised although another agent had returned a non-empty message,
\* on a log that already held entries
C28_Witness ==
  /\ tick_pc = "raised"
  /\ tickLog # <<>>
  /\ \E a \in Agents : pc[a] = "done" /\ result[a].message # ""

(* C25: every started tick whose completion calls all return reaches its
   commit: a tick that is started and not yet committed is eventually
   committed unless an act() of it raised; and a tick is committed only
   when every agent of the room has returned, those whose gate said no
   included. *)
C25_StartedTickCommits ==
  /\ [](Committed => \A a \in Agents : pc[a] = "done")
  /\ (started > committed) ~>
       (started = committed \/ \E a \in Agents : pc[a] = "failed")

\* the second tick was committed with an agent whose gate said no and an
\* agent that answered
C25_Witness ==
  /\ Committed
  /\ committed = 2
  /\ \E a \in Agents : gateFalse[a] /\ result[a].message = ""
  /\ \E a \in Agents : ~gateFalse[a] /\ result[a].message # ""

\* s is yes in any case between whitespace
IsYes(s) ==
  \E i \in 1..Len(s) :
    /\ i + 2 <= Len(s)
    /\ s[i] \in {"y", "Y"}
    /\ s[i + 1] \in {"e", "E"}
    /\ s[i + 2] \in {"s", "S"}
    /\ \A k \in 1..Len(s) : (k < i \/ k > i + 2) => s[k] \in {" ", "\t", "\n"}

(* C26: the gate result is true if and only if the backend's answer is
   "yes" once surrounding whitespace is trimmed and case is ignored; "no",
   "yes.", "yes please" and the empty string give false. *)
C26_GateIsExactYes ==
  reasoned =>
    /\ verdict <=> IsYes(answer)
    /\ answer \in { <<"n", "o">>, <<"y", "e", "s", ".">>, <<>>,
                    <<"y", "e", "s", " ", "p", "l", "e", "a", "s", "e">> } =>
         ~verdict

\* reason() said yes to an answer in mixed case between whitespace
C26_Witness ==
  /\ reasoned
  /\ verdict
  /\ answer = <<" ", "Y", "e", "s", "\n">>

(* C23: to_yaml followed by from_yaml gives back the message sequence that
   was written: from_yaml returns a room, of the same length, with the
   same text, author and timestamp at every position. *)
C23_YamlRoundTrip ==
  loaded.done =>
    /\ ~loaded.raised
    /\ Len(loaded.messages) = Len(loaded.room)
    /\ \A i \in 1..Len(loaded.room) :
         /\ loaded.messages[i].message = loaded.room[i].message
         /\ loaded.messages[i].created_by = loaded.room[i].created_by
         /\ loaded.messages[i].created_at = loaded.room[i].created_at

\* a room was read back whose first text is a YAML boolean word and whose
\* second timestamp has a microsecond and no offset
C23_Witness ==
  /\ loaded.done
  /\ Len(loaded.messages) = 2
  /\ loaded.room[1].message = <<"n", "o">>
  /\ loaded.room[2].created_at.micro # 0
  /\ loaded.room[2].created_at.tz = <<>>

(* C30: in every reachable state of a ChatAgentWithMemory the keys of
   state['contextual_memory'] are keys of state['memory'], also after a
   remove that deletes a key the same cycle's perceive selected. *)
C30_ContextAlwaysSubset ==
  klass = "ChatAgentWithMemory" =>
    DOMAIN contextual_memory \subseteq DOMAIN memory

(* C31: remove with a key that is not in the memory store leaves the store
   as it is, raises no error and returns the 'not found' result; so a
   second remove of the same key leaves the store as the first one left
   it. *)
C31_RemoveAbsentKeyIsNoop ==
  /\ (/\ klass = "ChatAgentWithMemory"
      /\ stage = "act"
      /\ decision = "remove"
      /\ "key" \in DOMAIN action_payload
      /\ action_payload.key \notin DOMAIN pre.memory) =>
       /\ apc = "idle"
       /\ raisedErr = "none"
       /\ memory = pre.memory
       /\ Len(history) = Len(pre.history) + 1
       /\ history[Len(history)].action = "not found"
  /\ \A i \in 1..(Len(ops) - 1) :
       (/\ ops[i].name = "remove"
        /\ ops[i + 1].name = "remove"
        /\ ops[i + 1].payload.key = ops[i].payload.key) =>
         /\ ops[i + 1].before = ops[i].after
         /\ ops[i + 1].after = ops[i].after

\* a key was stored, removed, and removed a second time: the second
\* remove found no such key
C31_Witness ==
  /\ stage = "act"
  /\ decision = "remove"
  /\ Len(ops) = 2
  /\ ops[1].name = "remove"
  /\ ops[2].name = "remove"
  /\ ops[2].payload.key = ops[1].payload.key
  /\ ops[1].payload.key \in DOMAIN ops[1].before
  /\ action_payload.key \notin DOMAIN pre.memory
  /\ history[Len(history)].action = "not found"

====
